---- MODULE Spec2Model ----
(***************************************************************************)
(* Model of data_process/prepare.py: RawData (parallel read and merge),    *)
(* SonicData (range partitioner and parallel splitter) and AmmoniaData     *)
(* (time shift and resample).                                              *)
(*                                                                         *)
(* Time.  Sonic timestamps are integers counting ticks; one minute is      *)
(* TicksPerMinute ticks, so a tick is a whole number of seconds and no     *)
(* timestamp has a sub-second part.  Ammonia timestamps count hours.       *)
(*                                                                         *)
(* Tables.  A table is the sequence of its index (timestamps), in row      *)
(* order; a row is identified by its position, which stands for the row's  *)
(* values.  Every table slice the program takes is a run of consecutive    *)
(* rows, so a sub-table is a pair of positions lo..hi (empty: 1..0).       *)
(* The index is taken to be a DatetimeIndex (the data_format parses the    *)
(* first column as dates).                                                 *)
(***************************************************************************)
EXTENDS Integers, Sequences, FiniteSets, TLC

\* ------------------------------------------------------------- bounds ----
MaxCores == 2
MaxFreq == 2
MaxBegin == 1
MaxLen == 2
MaxFileRows == 2
MaxExtra == 2
MaxAmmFreq == 3
MaxAmmTime == 4
MaxAmmRows == 3
MaxVal == 2
TicksPerMinute == 2

\* ------------------------------------------------- program constants ----
\* cores * 8 in _make_data_fractions
Granularity == 8
\* tshift(8, freq='H') in AmmoniaData.prepare_data
ShiftHours == 8

VARIABLES
    cores,      \* RawData.cores
    freq,       \* data_range.freq, in ticks
    begin,      \* data_range[0]
    rangeLen,   \* len(data_range)
    rawFiles,   \* the parsed content of each raw file, in data_files order
    pc,         \* position of the coordinating process
    pool,       \* which Pool is open: "none", "read" or "split"
    readDone,   \* indices of the data files whose read unit has completed
    data,       \* RawData.data, the merged table
    dirCreated, \* the Split directory exists
    pos,        \* timestamps of data_range consumed by data_range_iter
    tasks,      \* the fractions yielded (and dispatched), in order
    skipped,    \* the sub-range of each fraction whose slice raised
    head,       \* number of dispatched tasks taken by a pool worker
    running,    \* task -> i, the window counter of each task in progress
    results,    \* tasks whose apply_async result is ready (returned True)
    files,      \* the Split directory: name -> [rows, win]; win is the
                \* start_time of the window written last (history)
    winOut,     \* per window start_time: "none", "err" or "ok" (history)
    writes,     \* <<file name, start_time>> of every to_csv done (history)
    ioFailed,   \* a to_csv call has raised (at most one does)
    killed,     \* units terminated with their pool while pending (history)
    aFreq,      \* ammonia: data_range.freq, in hours
    aSrc,       \* ammonia: the merged table as read, rows [ts, val] (history)
    aData,      \* ammonia: self.data
    aOut,       \* ammonia: data_averaged.csv, bucket label -> [sum, cnt]
    aPc         \* ammonia: "merged" before prepare_data, "done" after

sonicVars == <<cores, freq, begin, rangeLen, rawFiles, pc, pool, readDone, data,
               dirCreated, pos, tasks, skipped, head, running, results, files,
               winOut, writes, ioFailed, killed>>
ammVars == <<aFreq, aSrc, aData, aOut, aPc>>
vars == <<sonicVars, ammVars>>

\* ------------------------------------------------------------ helpers ----
Min(S) == CHOOSE x \in S : \A y \in S : x <= y
Max(S) == CHOOSE x \in S : \A y \in S : x >= y

RECURSIVE Flatten(_)
Flatten(ss) == IF ss = << >> THEN << >> ELSE Head(ss) \o Flatten(Tail(ss))

\* data_range[k], k = 0 .. len-1: pd.date_range(begin, end, freq, closed='left')
RangeAt(k) == begin + k * freq

\* divmod(len(data_range), cores * 8), plus one when there is a remainder
FractionSizeMutantFloor == rangeLen \div (cores * Granularity)

FractionSize ==
    LET q == rangeLen \div (cores * Granularity)
        extra == rangeLen % (cores * Granularity)
    IN  IF extra # 0 THEN q + 1 ELSE q

\* ------------------------------------------------- table[start:end] ----
Empty == [ok |-> TRUE, lo |-> 1, hi |-> 0]
SliceError == [ok |-> FALSE, lo |-> 1, hi |-> 0]

IsIncreasing(lo, hi) == \A p \in lo .. hi - 1 : data[p] <= data[p + 1]
IsDecreasing(lo, hi) == \A p \in lo .. hi - 1 : data[p] >= data[p + 1]
Occurs(lo, hi, label) == {p \in lo .. hi : data[p] = label}
Contiguous(P) == P = Min(P) .. Max(P)

\* Index.get_slice_bound(label, side), as an offset into rows lo..hi;
\* -1 stands for the KeyError.  A label that occurs gives the first (left)
\* or one past the last (right) of its rows, and raises when its rows are
\* not consecutive; a label that does not occur is placed by binary search
\* in a monotonic index and raises in any other
SliceBound(lo, hi, label, side) ==
    LET P == Occurs(lo, hi, label)
    IN  IF P # {}
        THEN IF ~Contiguous(P) THEN -1
             ELSE IF side = "left" THEN Min(P) - lo ELSE Max(P) - lo + 1
        ELSE IF IsIncreasing(lo, hi)
             THEN Cardinality({p \in lo .. hi : data[p] < label})
        ELSE IF IsDecreasing(lo, hi)
             THEN Cardinality({p \in lo .. hi : data[p] > label})
        ELSE -1

\* pandas label slicing of rows lo..hi by two Timestamps: both ends are
\* looked up as labels, and the rows from the left bound of start_time to
\* the right bound of end_time are returned
Slice(lo, hi, start_time, end_time) ==
    LET l == SliceBound(lo, hi, start_time, "left")
        r == SliceBound(lo, hi, end_time, "right")
    IN  IF l < 0 \/ r < 0 THEN SliceError
        ELSE IF l >= r THEN Empty
        ELSE [ok |-> TRUE, lo |-> lo + l, hi |-> lo + r - 1]

\* the rows of a sub-table, as written by to_csv(index=False)
Rows(lo, hi) == [j \in 1 .. (hi - lo + 1) |-> lo + j - 1]

\* ------------------------------------------------------- file names ----
TicksPerHour == 60 * TicksPerMinute
TicksPerDay == 24 * TicksPerHour

\* str(start_time.date()) + '_' + str(start_time.time()).replace(':', '-')[:-3]
\* "HH:MM:SS" loses its last three characters: the name keeps date, hour, minute
PartNameMutantDropMinute(t) ==
    <<t \div TicksPerDay, (t % TicksPerDay) \div TicksPerHour, 0>>

PartName(t) ==
    <<t \div TicksPerDay, (t % TicksPerDay) \div TicksPerHour,
      (t % TicksPerHour) \div TicksPerMinute>>

\* ----------------------------------------------------------- inputs ----
\* k rows sampled once per tick from t on: one raw file of a logger
Regular(t, k) == [j \in 1 .. k |-> t + j - 1]

\* Two raw files of one logger: the second continues the first (ov = 0),
\* repeats its last row (ov = 1) or starts one tick late (ov = -1);
\* get_files_list returns them in either order.
RawFileLists ==
    {IF swap THEN <<Regular(a - ov, b), Regular(0, a)>>
             ELSE <<Regular(0, a), Regular(a - ov, b)>> :
        <<a, b, ov, swap>> \in (1 .. MaxFileRows) \X (0 .. MaxFileRows)
                                \X (-1 .. 1) \X BOOLEAN}

FileIds == 1 .. 2

RangeTimes == {RangeAt(k) : k \in 0 .. rangeLen - 1}
RangeSeq == [j \in 1 .. rangeLen |-> RangeAt(j - 1)]

\* the ammonia pipeline is not running
AmmInit ==
    /\ aFreq = 1
    /\ aSrc = << >>
    /\ aData = << >>
    /\ aOut = << >>
    /\ aPc = "off"

SonicInit(coreSet, freqSet, beginSet, lenSet, fileSet) ==
    /\ cores \in coreSet
    /\ freq \in freqSet
    /\ begin \in beginSet
    /\ rangeLen \in lenSet
    /\ rawFiles \in fileSet
    /\ pc = "start"
    /\ pool = "none"
    /\ readDone = {}
    /\ data = << >>
    /\ dirCreated = FALSE
    /\ pos = 0
    /\ tasks = << >>
    /\ skipped = << >>
    /\ head = 0
    /\ running = << >>
    /\ results = {}
    /\ files = << >>
    /\ winOut = [t \in RangeTimes |-> "none"]
    /\ writes = {}
    /\ ioFailed = FALSE
    /\ killed = {}

Init ==
    /\ SonicInit(1 .. MaxCores, 1 .. MaxFreq, 0 .. MaxBegin, 0 .. MaxLen,
                 RawFileLists)
    /\ AmmInit

\* -------------------------------------------- RawData: read and merge ----
\* pg.MpProgress(...).show(): returns once every result is ready
ProgressShown(ready, all) == ready = all

\* with Pool(self.cores) as p: p.map_async(self._read_data_file, data_files)
OpenReadPool ==
    /\ pc = "start"
    /\ pool' = "read"
    /\ pc' = "reading"
    /\ UNCHANGED <<cores, freq, begin, rangeLen, rawFiles, readDone, data,
                   dirCreated, pos, tasks, skipped, head, running, results,
                   files, winOut, writes, ioFailed, killed, ammVars>>

\* one unit of the read pool: _read_data_file(data_files[i])
ReadDataFile(i) ==
    /\ pool = "read"
    /\ i \notin readDone
    /\ readDone' = readDone \cup {i}
    /\ UNCHANGED <<cores, freq, begin, rangeLen, rawFiles, pc, pool, data,
                   dirCreated, pos, tasks, skipped, head, running, results,
                   files, winOut, writes, ioFailed, killed, ammVars>>

\* progress.show() returns and the with block ends: Pool.__exit__ terminates
LeaveReadPool ==
    /\ pc = "reading"
    /\ ProgressShown(readDone, FileIds)
    /\ pool' = "none"
    /\ killed' = killed \cup {<<"read", i>> : i \in FileIds \ readDone}
    /\ pc' = "merge"
    /\ UNCHANGED <<cores, freq, begin, rangeLen, rawFiles, readDone, data,
                   dirCreated, pos, tasks, skipped, head, running, results,
                   files, winOut, writes, ioFailed, ammVars>>

\* self.data = pd.concat(datum_async_list.get()): get() waits for every
\* result and returns them in data_files order
MergeData ==
    /\ pc = "merge"
    /\ readDone = FileIds
    /\ data' = Flatten(rawFiles)
    /\ pc' = "merged"
    /\ UNCHANGED <<cores, freq, begin, rangeLen, rawFiles, pool, readDone,
                   dirCreated, pos, tasks, skipped, head, running, results,
                   files, winOut, writes, ioFailed, killed, ammVars>>

\* ------------------------------------------- SonicData.prepare_data ----
\* os.makedirs(split_path, exist_ok=True)
MakeDirs ==
    /\ pc = "merged"
    /\ dirCreated' = TRUE
    /\ pc' = "made"
    /\ UNCHANGED <<cores, freq, begin, rangeLen, rawFiles, pool, readDone, data,
                   pos, tasks, skipped, head, running, results,
                   files, winOut, writes, ioFailed, killed, ammVars>>

\* with Pool(self.cores) as p
OpenSplitPoolMutantNoDir == pc \in {"merged", "made"}

OpenSplitPoolAt == pc = "made"

OpenSplitPool ==
    /\ OpenSplitPoolAt
    /\ pool' = "split"
    /\ pc' = "dispatch"
    /\ UNCHANGED <<cores, freq, begin, rangeLen, rawFiles, readDone, data,
                   dirCreated, pos, tasks, skipped, head, running, results,
                   files, winOut, writes, ioFailed, killed, ammVars>>

\* ------------------------------------------- _make_data_fractions ----
\* tuple(islice(data_range_iter, fraction_size)): how many timestamps it takes
TakeCountMutantAll == rangeLen - pos

TakeCount == Min({FractionSize, rangeLen - pos})

\* pd.date_range(fraction[0], fraction[-1], freq=data_range.freq)
DateRangeMutantOpen(first, last) ==
    [j \in 1 .. ((last - first) \div freq) |-> first + (j - 1) * freq]

DateRange(first, last) ==
    [j \in 1 .. ((last - first) \div freq + 1) |-> first + (j - 1) * freq]

\* data[start_time:end_time] of the fraction the generator carves next
FractionSlice ==
    LET start_time == RangeAt(pos)
        end_time == RangeAt(pos + TakeCount - 1) + freq
    IN  Slice(1, Len(data), start_time, end_time)

NextFraction ==
    [rng |-> DateRange(RangeAt(pos), RangeAt(pos + TakeCount - 1)),
     lo |-> FractionSlice.lo, hi |-> FractionSlice.hi]

\* the generator yields and the list comprehension calls p.apply_async
GenYield ==
    /\ pc = "dispatch"
    /\ TakeCount > 0
    /\ FractionSlice.ok
    /\ tasks' = Append(tasks, NextFraction)
    /\ pos' = pos + TakeCount
    /\ UNCHANGED <<cores, freq, begin, rangeLen, rawFiles, pc, pool, readDone,
                   data, dirCreated, skipped, head, running, results,
                   files, winOut, writes, ioFailed, killed, ammVars>>

\* the slice raises: except Exception prints it and the loop goes on
GenSkip ==
    /\ pc = "dispatch"
    /\ TakeCount > 0
    /\ ~FractionSlice.ok
    /\ skipped' = Append(skipped, NextFraction.rng)
    /\ pos' = pos + TakeCount
    /\ UNCHANGED <<cores, freq, begin, rangeLen, rawFiles, pc, pool, readDone,
                   data, dirCreated, tasks, head, running, results,
                   files, winOut, writes, ioFailed, killed, ammVars>>

\* if not fraction: return
GenReturn ==
    /\ pc = "dispatch"
    /\ TakeCount = 0
    /\ pc' = "show"
    /\ UNCHANGED <<cores, freq, begin, rangeLen, rawFiles, pool, readDone,
                   data, dirCreated, pos, tasks, skipped, head, running, results,
                   files, winOut, writes, ioFailed, killed, ammVars>>

\* --------------------------------------------------- the split pool ----
TaskIds == 1 .. Len(tasks)

\* an idle pool worker takes the oldest task not yet taken
TakeTask ==
    /\ pool = "split"
    /\ Cardinality(DOMAIN running) < cores
    /\ head < Len(tasks)
    /\ head' = head + 1
    /\ running' = [t \in DOMAIN running \cup {head + 1} |->
                      IF t = head + 1 THEN 0 ELSE running[t]]
    /\ UNCHANGED <<cores, freq, begin, rangeLen, rawFiles, pc, pool, readDone,
                   data, dirCreated, pos, tasks, skipped, results,
                   files, winOut, writes, ioFailed, killed, ammVars>>

\* the window counter after one pass of the while loop, failed or not
NextWindowMutantAbort(t, failed) ==
    IF failed THEN Len(tasks[t].rng) ELSE running[t] + 1

NextWindow(t, failed) == running[t] + 1

\* data_fraction[start_time:end_time] of window i of task t
WindowSlice(t) ==
    LET start_time == tasks[t].rng[running[t] + 1]
    IN  Slice(tasks[t].lo, tasks[t].hi, start_time, start_time + freq)

\* one pass of the while loop of _split_data_fraction, in the try block:
\* slice, name, to_csv; io = FALSE is a to_csv that raises for a cause
\* outside the program; to_csv also raises when the directory is missing
SplitWindow(t, io) ==
    /\ t \in DOMAIN running
    /\ running[t] < Len(tasks[t].rng)
    /\ LET start_time == tasks[t].rng[running[t] + 1]
           part == WindowSlice(t)
           file_path == PartName(start_time)
           failed == ~part.ok \/ ~io \/ ~dirCreated
       IN  /\ io \/ (part.ok /\ dirCreated /\ ~ioFailed)
           /\ ioFailed' = (ioFailed \/ ~io)
           /\ winOut' = [winOut EXCEPT ![start_time] =
                             IF failed THEN "err" ELSE "ok"]
           /\ files' = IF failed THEN files
                       ELSE [f \in DOMAIN files \cup {file_path} |->
                                IF f = file_path
                                THEN [rows |-> Rows(part.lo, part.hi),
                                      win |-> start_time]
                                ELSE files[f]]
           /\ writes' = IF failed THEN writes
                        ELSE writes \cup {<<file_path, start_time>>}
           /\ running' = [running EXCEPT ![t] = NextWindow(t, failed)]
    /\ UNCHANGED <<cores, freq, begin, rangeLen, rawFiles, pc, pool, readDone,
                   data, dirCreated, pos, tasks, skipped, head, results,
                   killed, ammVars>>

\* the while loop ends: return True, the AsyncResult becomes ready
SplitReturn(t) ==
    /\ t \in DOMAIN running
    /\ running[t] >= Len(tasks[t].rng)
    /\ results' = results \cup {t}
    /\ running' = [u \in DOMAIN running \ {t} |-> running[u]]
    /\ UNCHANGED <<cores, freq, begin, rangeLen, rawFiles, pc, pool, readDone,
                   data, dirCreated, pos, tasks, skipped, head,
                   files, winOut, writes, ioFailed, killed, ammVars>>

\* progress.show() returns, timer_split.stop(), Pool.__exit__ terminates
LeaveSplitPool ==
    /\ pc = "show"
    /\ ProgressShown(results, TaskIds)
    /\ pool' = "none"
    /\ killed' = killed \cup {<<"split", t>> : t \in TaskIds \ results}
    /\ running' = << >>
    /\ pc' = "done"
    /\ UNCHANGED <<cores, freq, begin, rangeLen, rawFiles, readDone,
                   data, dirCreated, pos, tasks, skipped, head, results,
                   files, winOut, writes, ioFailed, ammVars>>

Next ==
    \/ OpenReadPool
    \/ \E i \in FileIds : ReadDataFile(i)
    \/ LeaveReadPool
    \/ MergeData
    \/ MakeDirs
    \/ OpenSplitPool
    \/ GenYield
    \/ GenSkip
    \/ GenReturn
    \/ TakeTask
    \/ \E t \in TaskIds : \E io \in BOOLEAN : SplitWindow(t, io)
    \/ \E t \in TaskIds : SplitReturn(t)
    \/ LeaveSplitPool

Spec == Init /\ [][Next]_vars

\* ------------------------------- the partitioner alone, on any input ----
\* 30 minutes, the frequency of the project's example
HalfHour == 30 * TicksPerMinute

PartInit ==
    /\ SonicInit(1 .. MaxCores, {1, HalfHour}, {0},
                 0 .. (MaxCores * Granularity + MaxExtra), RawFileLists)
    /\ AmmInit

\* _make_data_fractions(data, data_range, cores) called on the merged table
PartCall ==
    /\ pc = "start"
    /\ data' = Flatten(rawFiles)
    /\ pc' = "dispatch"
    /\ UNCHANGED <<cores, freq, begin, rangeLen, rawFiles, pool, readDone,
                   dirCreated, pos, tasks, skipped, head, running, results,
                   files, winOut, writes, ioFailed, killed, ammVars>>

PartNext == PartCall \/ GenYield \/ GenSkip \/ GenReturn

SpecPart == PartInit /\ [][PartNext]_vars

\* ------------------- one worker, ranges long enough for 2-window fractions ----
LongInit ==
    /\ SonicInit({1}, 1 .. MaxFreq, {0},
                 (Granularity + 1) .. (Granularity + MaxExtra), RawFileLists)
    /\ AmmInit

SpecLong == LongInit /\ [][Next]_vars

\* ------------------------------------------ AmmoniaData.prepare_data ----
AmmRows == [ts : 0 .. MaxAmmTime, val : 1 .. MaxVal]
\* merged ammonia tables: 1 .. MaxAmmRows rows in time order
AmmTables ==
    UNION {{tab \in [1 .. k -> AmmRows] :
               \A j \in 1 .. k - 1 : tab[j].ts <= tab[j + 1].ts} :
           k \in 1 .. MaxAmmRows}

AmmOnlyInit ==
    /\ SonicInit({1}, {1}, {0}, {0}, {<<Regular(0, 1), << >>>>})
    /\ aFreq \in 1 .. MaxAmmFreq
    /\ aSrc \in AmmTables
    /\ aData = aSrc
    /\ aOut = << >>
    /\ aPc = "merged"

\* tshift(8, freq='H'): every index value moves 8 hours on
TshiftMutantBack(ts) == ts - ShiftHours

Tshift(ts) == ts + ShiftHours

\* the bins of resample(freq): left-closed, left-labelled, freq wide,
\* anchored at midnight of the first row's day
BinOf(ts, first) ==
    LET origin == (first \div 24) * 24
    IN  origin + ((ts - origin) \div aFreq) * aFreq

\* resample(freq).mean() of table tab: one row per bin from the first
\* row's bin to the last row's; a bin's mean is sum / cnt, undefined (NaN)
\* when cnt = 0
RECURSIVE SumOf(_, _)
SumOf(tab, S) ==
    IF S = {} THEN 0
    ELSE LET j == CHOOSE x \in S : TRUE IN tab[j].val + SumOf(tab, S \ {j})

ResampleMean(tab) ==
    LET first == tab[1].ts
        last == tab[Len(tab)].ts
        nbins == (BinOf(last, first) - BinOf(first, first)) \div aFreq + 1
        labels == {BinOf(first, first) + (j - 1) * aFreq : j \in 1 .. nbins}
        members(b) == {j \in 1 .. Len(tab) : BinOf(tab[j].ts, first) = b}
    IN  [b \in labels |->
            [sum |-> SumOf(tab, members(b)), cnt |-> Cardinality(members(b))]]

\* prepare_data: shift, resample and average, write data_averaged.csv
AmmPrepare ==
    /\ aPc = "merged"
    /\ aData' = [j \in 1 .. Len(aData) |->
                    [ts |-> Tshift(aData[j].ts), val |-> aData[j].val]]
    /\ aOut' = ResampleMean(aData')
    /\ aPc' = "done"
    /\ UNCHANGED <<aFreq, aSrc, sonicVars>>

AmmNext == AmmPrepare

SpecAmm == AmmOnlyInit /\ [][AmmNext]_vars

\* ======================================================= properties ====
TaskRanges == [t \in 1 .. Len(tasks) |-> tasks[t].rng]
\* the sub-ranges of the fractions yielded, concatenated in yield order
Yielded == Flatten(TaskRanges)
\* every sub-range the generator carved, yielded or skipped
Carved == {tasks[t].rng : t \in 1 .. Len(tasks)}
              \cup {skipped[j] : j \in 1 .. Len(skipped)}
\* the sub-ranges among C that hold timestamp ts
Holders(C, ts) == {r \in C : \E j \in DOMAIN r : r[j] = ts}
GenDone == pc = "show"
RangeEnd == begin + rangeLen * freq
InRange(ts) == begin <= ts /\ ts < RangeEnd /\ (ts - begin) % freq = 0
CeilDiv(n, d) == (n + d - 1) \div d

\* C1 (as claimed): for every non-empty range and worker count, the
\* sub-ranges of the yielded fractions, concatenated in yield order, are
\* exactly the range.
C1_YieldedIsRange == (GenDone /\ rangeLen > 0) => Yielded = RangeSeq

\* C1 (amended): the sub-ranges carved never overlap and never leave the
\* range; every timestamp consumed so far lies in exactly one sub-range,
\* yielded or skipped, once; the yielded ones are in ascending order; and when
\* no table slice raised, the yielded sub-ranges concatenated are exactly
\* the range.
C1_Partition ==
    /\ LET C == Carved
       IN  /\ \A k \in 0 .. pos - 1 : Cardinality(Holders(C, RangeAt(k))) = 1
           /\ \A r \in C : \A j \in 1 .. Len(r) - 1 : r[j] < r[j + 1]
           /\ \A r \in C : \A j \in DOMAIN r : InRange(r[j])
    /\ \A j \in 1 .. Len(Yielded) - 1 : Yielded[j] < Yielded[j + 1]
    /\ GenDone => pos = rangeLen
    /\ (GenDone /\ skipped = << >>) => Yielded = RangeSeq

C1_Witness ==
    /\ GenDone
    /\ skipped = << >>
    /\ Len(tasks) >= 3
    /\ Len(tasks[1].rng) >= 2
    /\ Len(tasks[Len(tasks)].rng) < Len(tasks[1].rng)

Scenario == rangeLen = 4 /\ cores = 1 /\ freq = HalfHour /\ begin = 0

\* C2 (as claimed): 4 timestamps at 30 minutes and 1 worker give exactly one
\* fraction, whose sub-range is the whole range.
C2_OneFraction ==
    (Scenario /\ GenDone) => (Len(tasks) = 1 /\ tasks[1].rng = RangeSeq)

\* C2 (amended): 4 timestamps at 30 minutes and 1 worker give 4 sub-ranges
\* of one timestamp each (the fraction size is ceil(4/8) = 1); all 4 are
\* yielded, and in order make up the whole range, when no table slice raises.
C2_FourFractions ==
    (Scenario /\ GenDone) =>
        /\ Len(tasks) + Len(skipped) = 4
        /\ \A r \in Carved : Len(r) = 1
        /\ skipped = << >> => (Len(tasks) = 4 /\ Yielded = RangeSeq)

C2_Witness == Scenario /\ GenDone /\ Len(tasks) = 4

\* C10: the generator consumes the range once and stops; with
\* s = ceil(n / (8 * W)) every sub-range but the last has s timestamps, the
\* last has 1..s, there are ceil(n / s) <= 8 * W of them (yielded or
\* skipped), an empty range gives none, and a sub-range whose slice raised
\* is skipped without stopping the ones after it.
C10_Sizes ==
    LET s == CeilDiv(rangeLen, Granularity * cores)
    IN  /\ pos <= rangeLen
        /\ GenDone => pos = rangeLen
        /\ pc = "dispatch" => ENABLED (GenYield \/ GenSkip \/ GenReturn)
        /\ \A r \in Carved :
              /\ Len(r) \in 1 .. s
              /\ r[Len(r)] # RangeAt(rangeLen - 1) => Len(r) = s
        /\ (GenDone /\ rangeLen > 0) =>
              /\ Len(tasks) + Len(skipped) = CeilDiv(rangeLen, s)
              /\ Len(tasks) + Len(skipped) <= Granularity * cores
        /\ rangeLen = 0 => (tasks = << >> /\ skipped = << >>)

C10_Witness ==
    /\ GenDone
    /\ skipped # << >>
    /\ \E t \in 1 .. Len(tasks) : tasks[t].rng[1] > skipped[1][1]

\* ------------------------------------------------------ the splitter ----
Done == pc = "done"
Sorted == IsIncreasing(1, Len(data))
NoError ==
    /\ ~ioFailed
    /\ skipped = << >>
    /\ \A ts \in RangeTimes : winOut[ts] # "err"
FileRows == [nm \in DOMAIN files |-> files[nm].rows]
\* the <<file, line>> places where row p of the merged table was written
Copies(p) == {<<nm, j>> \in (DOMAIN files) \X (1 .. Len(data)) :
                  j \in DOMAIN files[nm].rows /\ files[nm].rows[j] = p}

\* C3: slices are half-open: a row whose timestamp is window_start + freq
\* is never in the file of the window starting at window_start, and a row
\* at the end of a fraction's sub-range is never in that fraction's table.
C3_HalfOpen ==
    /\ \A nm \in DOMAIN files : \A j \in DOMAIN files[nm].rows :
           data[files[nm].rows[j]] # files[nm].win + freq
    /\ \A t \in 1 .. Len(tasks) : \A p \in tasks[t].lo .. tasks[t].hi :
           data[p] # tasks[t].rng[Len(tasks[t].rng)] + freq

\* C4: after a run with no error on a sorted table, every row whose
\* timestamp is in [begin, end) is in exactly one output file, once, and no
\* file holds a row outside [begin, end).
C4_ExactlyOnce ==
    (Done /\ Sorted /\ NoError) =>
        \A p \in 1 .. Len(data) :
            Cardinality(Copies(p)) =
                IF begin <= data[p] /\ data[p] < RangeEnd THEN 1 ELSE 0

Attempted == {ts \in RangeTimes : winOut[ts] # "none"}
DistinctPaths ==
    /\ \A t1, t2 \in Attempted : t1 # t2 => PartName(t1) # PartName(t2)
    /\ \A w1, w2 \in writes : w1[1] = w2[1] => w1 = w2
    /\ (Done /\ NoError) => Cardinality(DOMAIN files) = rangeLen

\* C5 (as claimed): for any frequency, the file names computed for the
\* windows are pairwise distinct, no two writes go to the same path, and an
\* error-free run leaves exactly one file per timestamp of the range.
C5_AnyFrequency == DistinctPaths

\* C5 (amended): the same, for a frequency of at least one minute (the
\* name keeps the start time to the minute only).
C5_DistinctNames == freq >= TicksPerMinute => DistinctPaths

C5_Witness ==
    /\ freq >= TicksPerMinute
    /\ Cardinality(DOMAIN running) = 2
    /\ Cardinality(writes) = 2

\* what a run that takes the fractions one after the other writes
ExpFirst(k) == (k \div CeilDiv(rangeLen, Granularity * cores))
                   * CeilDiv(rangeLen, Granularity * cores)
ExpLast(k) ==
    Min({ExpFirst(k) + CeilDiv(rangeLen, Granularity * cores), rangeLen}) - 1
ExpFraction(k) ==
    Slice(1, Len(data), RangeAt(ExpFirst(k)), RangeAt(ExpLast(k)) + freq)
ExpWindow(k) ==
    IF ~ExpFraction(k).ok THEN SliceError
    ELSE Slice(ExpFraction(k).lo, ExpFraction(k).hi,
               RangeAt(k), RangeAt(k) + freq)
ExpWritten == {k \in 0 .. rangeLen - 1 : ExpWindow(k).ok}
ExpLastWriter(nm) == Max({k \in ExpWritten : PartName(RangeAt(k)) = nm})
ExpectedFiles ==
    [nm \in {PartName(RangeAt(k)) : k \in ExpWritten} |->
        Rows(ExpWindow(ExpLastWriter(nm)).lo, ExpWindow(ExpLastWriter(nm)).hi)]

\* C6 (as claimed): whatever order the workers run and complete the
\* fractions in, a run in which no write fails ends with the same files
\* with the same contents.
C6_AnyOrder == (Done /\ ~ioFailed) => FileRows = ExpectedFiles

\* C6 (amended): the same, for a frequency of at least one minute; and at
\* any moment every window written holds the rows the in-order run writes.
C6_Deterministic ==
    freq >= TicksPerMinute =>
        /\ \A k \in 0 .. rangeLen - 1 : winOut[RangeAt(k)] = "ok" =>
               /\ PartName(RangeAt(k)) \in DOMAIN files
               /\ files[PartName(RangeAt(k))].rows
                      = Rows(ExpWindow(k).lo, ExpWindow(k).hi)
        /\ (Done /\ ~ioFailed) => FileRows = ExpectedFiles

C6_Witness ==
    /\ freq >= TicksPerMinute
    /\ 2 \in results
    /\ 1 \notin results
    /\ \E nm \in DOMAIN files : files[nm].rows # << >>

\* the windows task t has been through: its counter i, all of them once
\* it has returned
C7_Progress(t) ==
    IF t \in DOMAIN running THEN running[t]
    ELSE IF t \in results THEN Len(tasks[t].rng) ELSE 0
C7_AllAttempted ==
    /\ \A t \in 1 .. Len(tasks) : \A j \in 1 .. Len(tasks[t].rng) :
           (winOut[tasks[t].rng[j]] # "none") <=> (j <= C7_Progress(t))
    /\ \A t \in DOMAIN running :
           ENABLED (SplitWindow(t, TRUE) \/ SplitReturn(t))
    /\ Done => results = TaskIds
C7_FailureKeepsFiles ==
    \A ts \in RangeTimes :
        (winOut[ts] = "none" /\ winOut'[ts] = "err") => files' = files

\* C7: a window that fails does not abort its fraction: the windows of a
\* fraction are attempted one by one in ascending order, all of them even
\* after a failure; a failing window leaves the files untouched; and the
\* call goes on to return True.
C7_LenientContinue == [] C7_AllAttempted /\ [][C7_FailureKeepsFiles]_vars

C7_Witness ==
    \E t \in results :
        /\ Len(tasks[t].rng) >= 2
        /\ winOut[tasks[t].rng[1]] = "err"
        /\ winOut[tasks[t].rng[2]] = "ok"

\* C8: the phases do not overlap: nothing of the split phase happens
\* before every read unit is done, the read pool is closed and the merge has
\* produced the table; the directory exists before any worker handles a
\* window; and no pool is left while one of its units is pending.
C8_Phases ==
    /\ (pos > 0 \/ tasks # << >> \/ skipped # << >> \/ head > 0
            \/ running # << >> \/ pool = "split" \/ dirCreated) =>
           /\ readDone = FileIds
           /\ data = Flatten(rawFiles)
           /\ pool # "read"
    /\ pool = "read" => data = << >>
    /\ data # << >> => readDone = FileIds
    /\ (Attempted # {} \/ running # << >> \/ pool = "split") => dirCreated
    /\ running # << >> => pool = "split"
    /\ killed = {}
    /\ Done => (results = TaskIds /\ running = << >>)

C8_Witness == Done /\ Cardinality(writes) = 2 /\ cores = 2

\* ------------------------------------------------------ the resampler ----
\* the rows of the table as read that land in the output bucket labelled b
SourceRows(b) ==
    {j \in 1 .. Len(aSrc) : b <= aSrc[j].ts + ShiftHours
                             /\ aSrc[j].ts + ShiftHours < b + aFreq}
\* the bucket of the unshifted table that row j lies in
SourceBucket(j) == BinOf(aSrc[j].ts, aSrc[1].ts)
OneRowPerBucket == \A b \in DOMAIN aOut : Cardinality(SourceRows(b)) = 1
RoundTrip ==
    /\ OneRowPerBucket =>
          \A b \in DOMAIN aOut : \A j \in SourceRows(b) :
              /\ aOut[b].cnt = 1
              /\ aOut[b].sum = aSrc[j].val
              /\ b = SourceBucket(j) + ShiftHours
    /\ \A j \in 1 .. Len(aSrc) :
          \E b \in DOMAIN aOut : j \in SourceRows(b)
    /\ \A b \in DOMAIN aOut : SourceRows(b) = {} => aOut[b].cnt = 0

\* C9 (as claimed): on a table with exactly one row per target bucket the
\* output has, per bucket, that row's value, at the source bucket's
\* timestamp plus 8 hours; a bucket without a source row is undefined.
C9_AnyFrequency == aPc = "done" => RoundTrip

\* C9 (amended): the same, for a frequency that divides 8 hours.
C9_RoundTrip == (aPc = "done" /\ ShiftHours % aFreq = 0) => RoundTrip

C9_Witness ==
    /\ aPc = "done"
    /\ ShiftHours % aFreq = 0
    /\ aFreq > 1
    /\ OneRowPerBucket
    /\ Cardinality(DOMAIN aOut) >= 2

====
